---------------------------- MODULE Spec2Model ----------------------------
(***************************************************************************)
(* Model of server/build-server.py: the FastAPI facade over the systemd    *)
(* units nix-build-<repo> and the harmonia cache.                          *)
(*                                                                         *)
(* Strings the code takes apart are sequences of tokens: the unit name     *)
(* "nix-build-alpha.service" is <<"nix-build-", "alpha", ".service">>, so  *)
(* that str.replace and str.split are computed, not assumed.  A text       *)
(* (a log file, the stdout of tail) is a sequence of tokens in which "\n"  *)
(* is the line terminator.                                                 *)
(*                                                                         *)
(* The endpoints are `async def` coroutines that never await: every        *)
(* subprocess.run blocks the single event loop uvicorn.run starts, so a    *)
(* handler runs to completion before another request is dispatched, while  *)
(* systemd, the build jobs and the timers move between its external        *)
(* commands.  Each action below is one external command of a handler       *)
(* together with the Python that follows it up to the next command.        *)
(***************************************************************************)
EXTENDS Naturals, Sequences, FiniteSets

\* ------------------------------------------------------------------ bounds

\* Coroutine frames the event loop may hold (requests accepted together).
NumClients == 2
\* Start invocations counted per unit before no further trigger is sent.
MaxStarts == 2
\* Lines a build job appends to a unit's log.
MaxLogLines == 2

\* lines = min(lines, 10000)
LOG_LINES_CEILING == 10000

Clients == 1..NumClients

\* ------------------------------------------------------------- the host

\* The repositories that have a build unit, a status file and a log.
Repos == {"alpha", "beta"}

Name(r) == <<r>>

\* Identifiers a request may carry; "gamma" has no unit.
Ids == {Name("alpha"), Name("beta"), Name("gamma")}

\* Units systemd may have loaded that match the glob nix-build-*.
LoadableUnits ==
    { <<"nix-build-", "alpha", ".service">>,
      <<"nix-build-", "beta", ".service">>,
      <<"nix-build-", "alpha", ".timer">> }

\* Values of a JSON document and of a pydantic field, tagged so that values of
\* different types are never compared directly.
Null == [t |-> "null", v |-> ""]
Missing == [t |-> "missing", v |-> ""]
Str(s) == [t |-> "str", v |-> s]
Bool(b) == [t |-> "bool", v |-> IF b THEN "true" ELSE "false"]
Datetime(s) == [t |-> "datetime", v |-> s]

Keys == {"is_running", "repository", "last_start", "last_finish",
         "last_status", "last_commit"}

HistoryKeys == {"last_start", "last_finish", "last_status", "last_commit"}

NoKeys == [k \in Keys |-> Missing]

T0 == "2024-01-01 00:00:00"
T1 == "2024-01-01T00:00:00"

\* What a status file may hold.
NoFile == [kind |-> "absent", obj |-> NoKeys]
Garbage == [kind |-> "garbage", obj |-> NoKeys]
Object(o) == [kind |-> "object", obj |-> o]

\* The record of the specification: the historical fields and nothing else.
HistoryRecord ==
    Object([NoKeys EXCEPT !["last_status"] = Str("success"),
                          !["last_finish"] = Str(T1)])

HistoryUnknown ==
    Object([NoKeys EXCEPT !["last_status"] = Str("unknown"),
                          !["last_commit"] = Str("abc123")])

\* Records that also carry is_running and repository.
FullRecord(r) ==
    Object([NoKeys EXCEPT !["is_running"] = Bool(FALSE),
                          !["repository"] = Str(r),
                          !["last_start"] = Str(T0),
                          !["last_finish"] = Str(T1),
                          !["last_status"] = Str("success"),
                          !["last_commit"] = Str("abc123")])

StaleRunning(r) ==
    Object([NoKeys EXCEPT !["is_running"] = Bool(TRUE),
                          !["repository"] = Str(r),
                          !["last_finish"] = Str(T1),
                          !["last_status"] = Str("failed")])

BadTime(r) ==
    Object([NoKeys EXCEPT !["is_running"] = Bool(FALSE),
                          !["repository"] = Str(r),
                          !["last_finish"] = Str("yesterday"),
                          !["last_status"] = Str("success")])

StatusContents(r) ==
    {Garbage, HistoryRecord, HistoryUnknown, FullRecord(r), StaleRunning(r),
     BadTime(r)}

LogLines == {"a", "b"}

VARIABLES
    busUp,        \* systemd answers systemctl (FALSE: every query fails)
    loaded,       \* the units list-units shows for nix-build-*
    unitState,    \* per repository: what is-active prints for its service
    activatedBy,  \* per repository: who started the run in progress
    cacheState,   \* what is-active prints for harmonia
    statusFile,   \* DATA_DIR/status/<repo>.json
    logFile,      \* DATA_DIR/logs/<repo>.log: [exists, text]
    frame,        \* per client: the coroutine frame of its request
    startRequests \* per repository: start requests of the API that systemd
                  \* accepted for the run in progress

vars == <<busUp, loaded, unitState, activatedBy, cacheState, statusFile,
          logFile, frame, startRequests>>

env == <<busUp, loaded, unitState, activatedBy, cacheState, statusFile,
         logFile, startRequests>>

\* ------------------------------------------------------- helper functions

\* str.replace(old, ""): every occurrence of the token is removed.
Replace(s, old) == SelectSeq(s, LAMBDA tok : tok # old)

Contains(s, tok) == \E i \in 1..Len(s) : s[i] = tok

\* One stdout line of `systemctl list-units --all nix-build-* --no-legend`,
\* as line.split() sees it: the unit, then its load, active and sub state.
ListLine(u) == <<u, <<"loaded">>, <<"active">>, <<"running">>>>

\* stdout.split("\n") of the list-units command: the lines of the loaded
\* units, and the empty line ("".split("\n") == [""]) when the query fails.
ListUnitsStdout ==
    IF busUp THEN {ListLine(u) : u \in loaded} \cup {<<>>} ELSE {<<>>}

\* if "nix-build-" in line
MentionsBuildUnit(line) ==
    \E i \in 1..Len(line) : Contains(line[i], "nix-build-")

\* parts[0].replace(".service", "").replace("nix-build-", "")
RepoName(parts) == Replace(Replace(parts[1], ".service"), "nix-build-")

\* sorted(set(repos)): the list without duplicates in a fixed order, which is
\* the set of its elements.
get_available_repos ==
    { RepoName(line) : line \in
        {l \in ListUnitsStdout : MentionsBuildUnit(l) /\ Len(l) > 0} }

\* stdout of `systemctl is-active nix-build-<repo>`: the state of the unit,
\* nothing when the query fails, "inactive" for a unit systemd does not know.
IsActiveStdout(repo) ==
    IF ~busUp THEN ""
    ELSE IF Len(repo) = 1 /\ repo[1] \in Repos THEN unitState[repo[1]]
    ELSE "inactive"

\* A probe that takes every answer but "inactive" for a run in progress.
is_build_running_unless_inactive(repo) == IsActiveStdout(repo) # "inactive"

\* return result.stdout.strip() == "active"
is_build_running(repo) == IsActiveStdout(repo) = "active"

is_cache_running == (IF busUp THEN cacheState ELSE "") = "active"

\* ------------------------------------------------------------ the frames

NoResp == [code |-> 0]

NoOutcome == [ok |-> FALSE, stderr |-> ""]

NoLog == [exists |-> FALSE, text |-> <<>>]

\* The locals of a coroutine: where it stands (pc), its request (op, id, n),
\* what its external commands returned so far (cache, stdout and probe of
\* is-active, outcome of start, file, log), how many start commands it ran,
\* and its response.
IdleFrame ==
    [pc |-> "idle", op |-> "none", id |-> <<>>, n |-> 0,
     cache |-> FALSE, stdout |-> "", probe |-> FALSE, found |-> FALSE,
     invocations |-> 0, outcome |-> NoOutcome, file |-> NoFile,
     log |-> NoLog, resp |-> NoResp]

\* HTTPException(status_code=404, detail=f"Repository '{repository}' not found")
NotFound(id) ==
    [code |-> 404, detail |-> <<"Repository '">> \o id \o <<"' not found">>]

Init ==
    /\ busUp = TRUE
    /\ loaded = {u \in LoadableUnits : u[3] = ".service"}
    /\ unitState = [r \in Repos |-> "inactive"]
    /\ activatedBy = [r \in Repos |-> "none"]
    /\ cacheState = "active"
    /\ statusFile = [r \in Repos |-> NoFile]
    /\ logFile = [r \in Repos |-> NoLog]
    /\ frame = [c \in Clients |-> IdleFrame]
    /\ startRequests = [r \in Repos |-> 0]

\* ------------------------------------------------------- the environment

\* systemd (its bus) becomes unreachable, or reachable again.
SupervisorToggle ==
    /\ busUp' = ~busUp
    /\ UNCHANGED <<loaded, unitState, activatedBy, cacheState, statusFile,
                   logFile, frame, startRequests>>

\* A unit is added to or removed from the host's configuration.
UnitsChange(u) ==
    /\ loaded' = IF u \in loaded THEN loaded \ {u} ELSE loaded \cup {u}
    /\ UNCHANGED <<busUp, unitState, activatedBy, cacheState, statusFile,
                   logFile, frame, startRequests>>

\* The unit's timer fires: a run starts without the API.
TimerStart(r) ==
    /\ unitState[r] = "inactive"
    /\ unitState' = [unitState EXCEPT ![r] = "active"]
    /\ activatedBy' = [activatedBy EXCEPT ![r] = "timer"]
    /\ UNCHANGED <<busUp, loaded, cacheState, statusFile, logFile, frame,
                   startRequests>>

\* The run in progress ends.
BuildFinish(r) ==
    /\ unitState[r] = "active"
    /\ unitState' = [unitState EXCEPT ![r] = "inactive"]
    /\ activatedBy' = [activatedBy EXCEPT ![r] = "none"]
    /\ startRequests' = [startRequests EXCEPT ![r] = 0]
    /\ UNCHANGED <<busUp, loaded, cacheState, statusFile, logFile, frame>>

\* The build job writes its result record.
JobWritesStatus(r) ==
    /\ unitState[r] = "active"
    /\ \E content \in StatusContents(r) :
          statusFile' = [statusFile EXCEPT ![r] = content]
    /\ UNCHANGED <<busUp, loaded, unitState, activatedBy, cacheState, logFile,
                   frame, startRequests>>

LineTokens(text) == Len(SelectSeq(text, LAMBDA tok : tok # "\n"))

\* The build job appends to its log: a whole line, or the start of one.
JobAppendsLog(r) ==
    /\ unitState[r] = "active"
    /\ LineTokens(logFile[r].text) < MaxLogLines
    /\ \E l \in LogLines, nl \in BOOLEAN :
          logFile' = [logFile EXCEPT ![r] =
              [exists |-> TRUE,
               text |-> logFile[r].text \o (IF nl THEN <<l, "\n">> ELSE <<l>>)]]
    /\ UNCHANGED <<busUp, loaded, unitState, activatedBy, cacheState,
                   statusFile, frame, startRequests>>

\* harmonia stops or starts.
CacheToggle ==
    /\ cacheState' = IF cacheState = "active" THEN "inactive" ELSE "active"
    /\ UNCHANGED <<busUp, loaded, unitState, activatedBy, statusFile, logFile,
                   frame, startRequests>>

\* ------------------------------------------------------- the event loop

Ops == {"trigger", "status", "logs", "health"}

\* The `lines` query parameter of /build/logs.
LineCounts == {0, 1, LOG_LINES_CEILING, LOG_LINES_CEILING + 1}

\* No coroutine is running: the loop is free to take the next request.
LoopFree == \A d \in Clients : frame[d].pc = "idle"

\* Repositories whose start count has reached the bound are not triggered.
WithinBound(op, id) ==
    op = "trigger" /\ Len(id) = 1 /\ id[1] \in Repos
        => startRequests[id[1]] < MaxStarts

\* The loop calls the endpoint of a request; the coroutine runs up to its
\* first external command.
Dispatch(c, op, id, n) ==
    /\ LoopFree
    /\ WithinBound(op, id)
    /\ frame' = [frame EXCEPT ![c] =
          [IdleFrame EXCEPT !.pc = IF op = "health" THEN "cache" ELSE "discover",
                            !.op = op,
                            !.id = IF op = "health" THEN <<>> ELSE id,
                            !.n = IF op = "logs" THEN n ELSE 0]]
    /\ UNCHANGED env

\* The response is sent and the frame is gone.
Respond(c) ==
    /\ frame[c].pc = "done"
    /\ frame' = [frame EXCEPT ![c] = IdleFrame]
    /\ UNCHANGED env

Done(f, resp) == [f EXCEPT !.pc = "done", !.resp = resp]

\* A discovery check that the logs endpoint skips.
DiscoverSkipsLogs(c) ==
    LET f == frame[c]
        repos == get_available_repos
    IN  /\ f.pc = "discover"
        /\ f.op \in {"trigger", "status", "logs"}
        /\ frame' = [frame EXCEPT ![c] =
              IF f.id \notin repos /\ f.op # "logs"
              THEN Done(f, NotFound(f.id))
              ELSE [f EXCEPT !.found = TRUE,
                             !.pc = CASE f.op = "trigger" -> "probe"
                                      [] f.op = "status" -> "read"
                                      [] OTHER -> "tail"]]
        /\ UNCHANGED env

\* repos = get_available_repos(); if repository not in repos: raise 404
Discover(c) ==
    LET f == frame[c]
        repos == get_available_repos
    IN  /\ f.pc = "discover"
        /\ f.op \in {"trigger", "status", "logs"}
        /\ frame' = [frame EXCEPT ![c] =
              IF f.id \notin repos
              THEN Done(f, NotFound(f.id))
              ELSE [f EXCEPT !.found = TRUE,
                             !.pc = CASE f.op = "trigger" -> "probe"
                                      [] f.op = "status" -> "read"
                                      [] OTHER -> "tail"]]
        /\ UNCHANGED env

\* --------------------------------------------------------- trigger_build

AlreadyRunning(id) ==
    [code |-> 200, status |-> "already_running", repository |-> id,
     message |-> <<"Build for ">> \o id \o <<" already in progress">>]

Triggered(id) ==
    [code |-> 200, status |-> "triggered", repository |-> id,
     message |-> <<"Build started for ">> \o id]

\* HTTPException(status_code=500, detail=f"Build trigger failed: {e.stderr}")
TriggerFailed(stderr) ==
    [code |-> 500, detail |-> <<"Build trigger failed: ", stderr>>]

\* A trigger that starts the unit whatever the probe says.
TriggerProbeIgnored(c) ==
    LET f == frame[c]
    IN  /\ f.pc = "probe"
        /\ f.op = "trigger"
        /\ frame' = [frame EXCEPT ![c] =
              [f EXCEPT !.probe = FALSE, !.stdout = IsActiveStdout(f.id),
                        !.pc = "start"]]
        /\ UNCHANGED env

\* if is_build_running(repository): return already_running
TriggerProbe(c) ==
    LET f == frame[c]
        running == is_build_running(f.id)
    IN  /\ f.pc = "probe"
        /\ f.op = "trigger"
        /\ frame' = [frame EXCEPT ![c] =
              IF running
              THEN Done([f EXCEPT !.probe = TRUE,
                                  !.stdout = IsActiveStdout(f.id)],
                        AlreadyRunning(f.id))
              ELSE [f EXCEPT !.probe = FALSE,
                             !.stdout = IsActiveStdout(f.id),
                             !.pc = "start"]]
        /\ UNCHANGED env

\* What `sudo systemctl start nix-build-<repo>` may end with: exit status 0,
\* or a non-zero status and a diagnostic on stderr.
StartOutcomes ==
    IF busUp
    THEN {[ok |-> TRUE, stderr |-> ""], [ok |-> FALSE, stderr |-> "Access denied"]}
    ELSE {[ok |-> FALSE, stderr |-> "Failed to connect to bus"]}

\* A trigger that swallows the CalledProcessError.
StartResponseSwallowed(id, outcome) == Triggered(id)

\* The response of the try block around subprocess.run(..., check=True).
StartResponse(id, outcome) ==
    IF outcome.ok THEN Triggered(id) ELSE TriggerFailed(outcome.stderr)

\* subprocess.run(["sudo", "systemctl", "start", ...], check=True) and the
\* response.  systemd starts an inactive unit and leaves an active one as it
\* is; startRequests counts the start requests it accepted for the run in
\* progress.
TriggerStart(c) ==
    LET f == frame[c]
        r == f.id[1]
    IN  /\ f.pc = "start"
        /\ f.op = "trigger"
        /\ \E outcome \in StartOutcomes :
              /\ frame' = [frame EXCEPT ![c] =
                    Done([f EXCEPT !.invocations = f.invocations + 1,
                                   !.outcome = outcome],
                         StartResponse(f.id, outcome))]
              /\ IF r \in Repos
                 THEN /\ unitState' =
                            IF outcome.ok THEN [unitState EXCEPT ![r] = "active"]
                            ELSE unitState
                      /\ activatedBy' =
                            IF outcome.ok /\ unitState[r] = "inactive"
                            THEN [activatedBy EXCEPT ![r] = "api"]
                            ELSE activatedBy
                      /\ startRequests' =
                            IF outcome.ok
                            THEN [startRequests EXCEPT ![r] = @ + 1]
                            ELSE startRequests
                 ELSE UNCHANGED <<unitState, activatedBy, startRequests>>
        /\ UNCHANGED <<busUp, loaded, cacheState, statusFile, logFile>>

\* ------------------------------------------------------ get_build_status

ValidTimes == {"2024-01-01 00:00:00", "2024-01-01T00:00:00"}

\* datetime validation of pydantic: both separators name the same instant.
ParseDatetime(s) == "2024-01-01 midnight"

\* datetime.isoformat(), by which the response is serialised.
Isoformat(d) == "2024-01-01T00:00:00"

\* Whether pydantic accepts the value for the field.
FieldValid(k, val) ==
    CASE k = "is_running" -> val.t = "bool"
      [] k = "repository" -> val.t = "str"
      [] k \in {"last_start", "last_finish"} ->
            \/ val.t \in {"missing", "null"}
            \/ val.t = "str" /\ val.v \in ValidTimes
      [] k = "last_status" ->
            \/ val.t \in {"missing", "null"}
            \/ val.t = "str" /\ val.v \in {"success", "failed"}
      [] OTHER -> val.t \in {"missing", "null", "str"}

\* The field of the model for an accepted value.
FieldOf(k, val) ==
    IF val.t = "missing" THEN Null
    ELSE IF k \in {"last_start", "last_finish"} /\ val.t = "str"
         THEN Datetime(ParseDatetime(val.v))
         ELSE val

\* json.loads(status_file.read_text()) and BuildStatus(**data) do not raise.
Validates(file) ==
    /\ file.kind = "object"
    /\ \A k \in Keys : FieldValid(k, file.obj[k])

\* BuildStatus(is_running=..., repository=repo): the other fields default.
DefaultStatus(repo, running) ==
    [k \in Keys |->
        CASE k = "is_running" -> Bool(running)
          [] k = "repository" -> Str(repo[1])
          [] OTHER -> Null]

\* A merge that keeps the is_running the record carries.
BuildStatusOfRecord(file, repo, running) ==
    IF Validates(file)
    THEN [k \in Keys |-> FieldOf(k, file.obj[k])]
    ELSE DefaultStatus(repo, running)

\* The try block and its except branch of get_build_status.
BuildStatusOf(file, repo, running) ==
    IF Validates(file)
    THEN [[k \in Keys |-> FieldOf(k, file.obj[k])]
            EXCEPT !["is_running"] = Bool(running)]
    ELSE DefaultStatus(repo, running)

\* The JSON body FastAPI makes of a BuildStatus.
ToJson(val) == IF val.t = "datetime" THEN Str(Isoformat(val.v)) ELSE val

StatusResponse(status) == [code |-> 200, body |-> [k \in Keys |-> ToJson(status[k])]]

StatusFileOf(id) ==
    IF Len(id) = 1 /\ id[1] \in Repos THEN statusFile[id[1]] ELSE NoFile

\* if not status_file.exists(): return BuildStatus(is_running=False, ...)
StatusRead(c) ==
    LET f == frame[c]
        file == StatusFileOf(f.id)
    IN  /\ f.pc = "read"
        /\ frame' = [frame EXCEPT ![c] =
              IF file.kind = "absent"
              THEN Done(f, StatusResponse(DefaultStatus(f.id, FALSE)))
              ELSE [f EXCEPT !.file = file, !.pc = "probe"]]
        /\ UNCHANGED env

\* status.is_running = is_build_running(repo), in the try block or after the
\* exception, and the response.
StatusProbe(c) ==
    LET f == frame[c]
        running == is_build_running(f.id)
    IN  /\ f.pc = "probe"
        /\ f.op = "status"
        /\ frame' = [frame EXCEPT ![c] =
              Done([f EXCEPT !.probe = running,
                             !.stdout = IsActiveStdout(f.id)],
                   StatusResponse(BuildStatusOf(f.file, f.id, running)))]
        /\ UNCHANGED env

\* ------------------------------------------------------------ build_logs

Min(a, b) == IF a < b THEN a ELSE b

RECURSIVE Split(_)
\* str.split("\n"): the pieces between the separators, empty ones included.
Split(text) ==
    IF ~Contains(text, "\n") THEN <<text>>
    ELSE LET i == CHOOSE j \in 1..Len(text) :
                    text[j] = "\n" /\ \A k \in 1..(j - 1) : text[k] # "\n"
         IN  <<SubSeq(text, 1, i - 1)>> \o Split(SubSeq(text, i + 1, Len(text)))

\* The number of lines of a text: its terminators, and an unterminated rest.
LineCount(text) ==
    Len(SelectSeq(text, LAMBDA tok : tok = "\n"))
        + (IF Len(text) > 0 /\ text[Len(text)] # "\n" THEN 1 ELSE 0)

RECURSIVE TailStdout(_, _)
\* stdout of `tail -n <k> <file>`: the last k lines with their terminators.
TailStdout(text, k) ==
    IF k = 0 THEN <<>>
    ELSE IF LineCount(text) <= k THEN text
    ELSE LET i == CHOOSE j \in 1..Len(text) :
                    text[j] = "\n" /\ \A m \in 1..(j - 1) : text[m] # "\n"
         IN  TailStdout(SubSeq(text, i + 1, Len(text)), k)

LogFileOf(id) ==
    IF Len(id) = 1 /\ id[1] \in Repos THEN logFile[id[1]] ELSE NoLog

\* The body of build_logs after the discovery check.
LogsOf(log, n) ==
    IF ~log.exists THEN <<>>
    ELSE Split(TailStdout(log.text, Min(n, LOG_LINES_CEILING)))

LogsTail(c) ==
    LET f == frame[c]
        log == LogFileOf(f.id)
    IN  /\ f.pc = "tail"
        /\ frame' = [frame EXCEPT ![c] =
              Done([f EXCEPT !.log = log],
                   [code |-> 200, logs |-> LogsOf(log, f.n)])]
        /\ UNCHANGED env

\* ---------------------------------------------------------------- health

\* cache_running = is_cache_running()
HealthCacheProbe(c) ==
    LET f == frame[c]
    IN  /\ f.pc = "cache"
        /\ frame' = [frame EXCEPT ![c] =
              [f EXCEPT !.cache = is_cache_running, !.pc = "repos"]]
        /\ UNCHANGED env

\* A verdict that reports a stopped cache as down.
HealthStatusDown(cache_running) == IF ~cache_running THEN "down" ELSE "healthy"

\* if not cache_running: status = "degraded" else: status = "healthy"
HealthStatus(cache_running) == IF ~cache_running THEN "degraded" ELSE "healthy"

\* repos = get_available_repos() and the HealthCheck returned.
HealthDiscover(c) ==
    LET f == frame[c]
        repos == get_available_repos
    IN  /\ f.pc = "repos"
        /\ frame' = [frame EXCEPT ![c] =
              Done(f, [code |-> 200, status |-> HealthStatus(f.cache),
                       cache_running |-> f.cache, repositories |-> repos])]
        /\ UNCHANGED env

\* ---------------------------------------------------- the specifications

Environment ==
    \/ SupervisorToggle
    \/ CacheToggle
    \/ \E u \in LoadableUnits : UnitsChange(u)
    \/ \E r \in Repos : TimerStart(r)
    \/ \E r \in Repos : BuildFinish(r)
    \/ \E r \in Repos : JobWritesStatus(r)
    \/ \E r \in Repos : JobAppendsLog(r)

\* Requests for the endpoints in `ops` arrive.
Accept(ops) ==
    \E c \in Clients, op \in ops, id \in Ids, n \in LineCounts :
        Dispatch(c, op, id, n)

Handlers ==
    \/ Accept(Ops)
    \/ \E c \in Clients : Discover(c)
    \/ \E c \in Clients : TriggerProbe(c)
    \/ \E c \in Clients : TriggerStart(c)
    \/ \E c \in Clients : StatusRead(c)
    \/ \E c \in Clients : StatusProbe(c)
    \/ \E c \in Clients : LogsTail(c)
    \/ \E c \in Clients : HealthCacheProbe(c)
    \/ \E c \in Clients : HealthDiscover(c)
    \/ \E c \in Clients : Respond(c)

Next == Environment \/ Handlers

\* The whole service on the whole host.
Spec == Init /\ [][Next]_vars

\* A host on which alpha has been built once and beta never.
InitBuilt ==
    /\ busUp = TRUE
    /\ loaded = {u \in LoadableUnits : u[3] = ".service"}
    /\ unitState = [r \in Repos |-> "inactive"]
    /\ activatedBy = [r \in Repos |-> "none"]
    /\ cacheState = "active"
    /\ statusFile = [r \in Repos |->
          IF r = "alpha" THEN FullRecord(r) ELSE NoFile]
    /\ logFile = [r \in Repos |->
          IF r = "alpha" THEN [exists |-> TRUE, text |-> <<"a", "\n">>]
          ELSE NoLog]
    /\ frame = [c \in Clients |-> IdleFrame]
    /\ startRequests = [r \in Repos |-> 0]

\* The trigger endpoint, with systemd, the timers and the runs around it.
NextTrigger ==
    \/ SupervisorToggle
    \/ \E u \in LoadableUnits : UnitsChange(u)
    \/ \E r \in Repos : TimerStart(r)
    \/ \E r \in Repos : BuildFinish(r)
    \/ Accept({"trigger"})
    \/ \E c \in Clients : Discover(c)
    \/ \E c \in Clients : TriggerProbe(c)
    \/ \E c \in Clients : TriggerStart(c)
    \/ \E c \in Clients : Respond(c)

SpecTrigger == Init /\ [][NextTrigger]_vars

\* The status and health endpoints, with the build jobs writing their records.
NextStatus ==
    \/ SupervisorToggle
    \/ CacheToggle
    \/ \E r \in Repos : TimerStart(r)
    \/ \E r \in Repos : BuildFinish(r)
    \/ \E r \in Repos : JobWritesStatus(r)
    \/ Accept({"status", "health"})
    \/ \E c \in Clients : Discover(c)
    \/ \E c \in Clients : StatusRead(c)
    \/ \E c \in Clients : StatusProbe(c)
    \/ \E c \in Clients : HealthCacheProbe(c)
    \/ \E c \in Clients : HealthDiscover(c)
    \/ \E c \in Clients : Respond(c)

SpecStatus == Init /\ [][NextStatus]_vars

\* The health endpoint, with units of any number and state.
NextHealth ==
    \/ SupervisorToggle
    \/ CacheToggle
    \/ \E u \in LoadableUnits : UnitsChange(u)
    \/ \E r \in Repos : TimerStart(r)
    \/ \E r \in Repos : BuildFinish(r)
    \/ Accept({"health"})
    \/ \E c \in Clients : HealthCacheProbe(c)
    \/ \E c \in Clients : HealthDiscover(c)
    \/ \E c \in Clients : Respond(c)

SpecHealth == Init /\ [][NextHealth]_vars

\* The logs endpoint, with the build jobs appending to their logs.
NextLogs ==
    \/ SupervisorToggle
    \/ \E r \in Repos : TimerStart(r)
    \/ \E r \in Repos : BuildFinish(r)
    \/ \E r \in Repos : JobAppendsLog(r)
    \/ Accept({"logs"})
    \/ \E c \in Clients : Discover(c)
    \/ \E c \in Clients : LogsTail(c)
    \/ \E c \in Clients : Respond(c)

SpecLogs == Init /\ [][NextLogs]_vars

\* Every endpoint on the built host, with the units coming and going.
NextApi ==
    \/ SupervisorToggle
    \/ CacheToggle
    \/ \E u \in LoadableUnits : UnitsChange(u)
    \/ \E r \in Repos : TimerStart(r)
    \/ \E r \in Repos : BuildFinish(r)
    \/ Handlers

SpecApi == InitBuilt /\ [][NextApi]_vars

\* ------------------------------------------------------------ the claims

\* The step by which client c's coroutine leaves the position pc.
Leaves(c, op, pc) ==
    frame[c].op = op /\ frame[c].pc = pc /\ frame'[c] # frame[c]

Finished(c, op) == frame[c].op = op /\ frame[c].pc = "done"

EmptyHistory(body) == \A k \in HistoryKeys : body[k] = Null

\* C1: for a unit without a status file, get_status returns empty historical
\* fields and is_running equal to what the probe reports when the call is
\* made; no record and an active unit give is_running = true.
C1_NoRecordFollowsProbe ==
    [][\A c \in Clients :
          Leaves(c, "status", "read")
              /\ StatusFileOf(frame[c].id).kind = "absent"
          => /\ frame'[c].pc = "done"
             /\ EmptyHistory(frame'[c].resp.body)
             /\ frame'[c].resp.body["is_running"]
                    = Bool(is_build_running(frame[c].id))]_vars

\* A record made of the historical fields only, each well formed.
HistoryOnly(file) ==
    /\ file.kind = "object"
    /\ file.obj["is_running"] = Missing
    /\ file.obj["repository"] = Missing
    /\ \A k \in {"last_start", "last_finish"} :
          \/ file.obj[k] = Missing
          \/ file.obj[k].t = "str" /\ file.obj[k].v \in ValidTimes
    /\ \/ file.obj["last_status"] = Missing
       \/ /\ file.obj["last_status"].t = "str"
          /\ file.obj["last_status"].v \in {"success", "failed", "unknown"}
    /\ file.obj["last_commit"].t \in {"missing", "str"}

\* The same instant, as the response spells it.
SameValue(k, sent, stored) ==
    IF stored = Missing THEN sent = Null
    ELSE IF k \in {"last_start", "last_finish"}
         THEN sent.t = "str" /\ ParseDatetime(sent.v) = ParseDatetime(stored.v)
         ELSE sent = stored

\* C2: for a unit whose status file is a well-formed record of the historical
\* fields only, get_status returns those historical values.
C2_HistoryReturned ==
    \A c \in Clients :
        Finished(c, "status") /\ frame[c].found /\ HistoryOnly(frame[c].file)
        => \A k \in HistoryKeys :
              SameValue(k, frame[c].resp.body[k], frame[c].file.obj[k])

\* A record that is no JSON, or holds a timestamp that is none.
Malformed(file) ==
    \/ file.kind = "garbage"
    \/ /\ file.kind = "object"
       /\ \E k \in {"last_start", "last_finish"} :
             file.obj[k].t = "str" /\ file.obj[k].v \notin ValidTimes

\* C3: whenever the status file exists, whatever it holds, get_status answers
\* 200 with is_running equal to what the probe reports when it is read, and
\* a malformed record gives empty history.
C3_ProbeOverridesRecord ==
    [][\A c \in Clients :
          Leaves(c, "status", "probe")
          => /\ frame'[c].pc = "done"
             /\ frame'[c].resp.code = 200
             /\ frame'[c].resp.body["is_running"]
                    = Bool(is_build_running(frame[c].id))
             /\ Malformed(frame[c].file)
                    => EmptyHistory(frame'[c].resp.body)]_vars

\* A record that claims a finished, successful build and is_running = false
\* was read while the unit ran: the response says is_running = true.
C3_Witness ==
    \E c \in Clients :
        /\ Finished(c, "status")
        /\ frame[c].file.kind = "object"
        /\ frame[c].file.obj["is_running"] = Bool(FALSE)
        /\ frame[c].file.obj["last_status"] = Str("success")
        /\ frame[c].probe
        /\ frame[c].resp.body["is_running"] = Bool(TRUE)
        /\ frame[c].resp.body["last_status"] = Str("success")

\* C4 as stated: while a run the API started is in progress, systemd has
\* accepted one start request for it and no more.
C4_OneStartPerRun ==
    \A r \in Repos :
        unitState[r] = "active" /\ activatedBy[r] = "api"
        => startRequests[r] <= 1

\* C4 as amended: a trigger call whose is-active query is answered "active"
\* returns already_running, runs no start command and leaves the count of
\* start requests as it is.
C4_RunningIsNoOp ==
    [][\A c \in Clients :
          Leaves(c, "trigger", "probe") /\ IsActiveStdout(frame[c].id) = "active"
          => /\ frame'[c].pc = "done"
             /\ frame'[c].resp = AlreadyRunning(frame[c].id)
             /\ frame'[c].invocations = 0
             /\ startRequests' = startRequests
             /\ unitState' = unitState]_vars

\* A later call found the run the API started in progress and returned
\* already_running, the count of start requests still at one.
C4_Witness ==
    \E c \in Clients :
        /\ Finished(c, "trigger")
        /\ frame[c].found
        /\ frame[c].probe
        /\ frame[c].resp.status = "already_running"
        /\ unitState[frame[c].id[1]] = "active"
        /\ activatedBy[frame[c].id[1]] = "api"
        /\ startRequests[frame[c].id[1]] = 1

\* C5: a request for an identifier that the discovery of this request does
\* not hold ends with 404 at once, for status, trigger and logs alike: no
\* probe, no start command, no file is read, and nothing on the host changes.
C5_UnknownIsNotFound ==
    [][\A c \in Clients, op \in {"status", "trigger", "logs"} :
          Leaves(c, op, "discover") /\ frame[c].id \notin get_available_repos
          => /\ frame'[c] = Done(frame[c], NotFound(frame[c].id))
             /\ frame'[c].invocations = 0
             /\ frame'[c].file = NoFile
             /\ frame'[c].log = NoLog
             /\ env' = env]_vars

\* trigger("gamma") ended with 404 and without a start command.
C5_Witness ==
    \E c \in Clients :
        /\ Finished(c, "trigger")
        /\ frame[c].id = Name("gamma")
        /\ frame[c].resp.code = 404
        /\ ~frame[c].found
        /\ frame[c].invocations = 0

\* The lines of a text, without their terminators.
FileLines(text) ==
    IF Len(text) = 0 THEN <<>>
    ELSE IF text[Len(text)] = "\n"
         THEN SubSeq(Split(text), 1, Len(Split(text)) - 1)
         ELSE Split(text)

LastLines(lines, k) == SubSeq(lines, Len(lines) - Min(k, Len(lines)) + 1, Len(lines))

\* C6: for a known unit, tail_log(id, n) returns the last min(n, 10000) lines
\* of the log in their order, never more than min(n, 10000) entries, and the
\* empty sequence when there is no log file.
C6_TailReturnsLastLines ==
    \A c \in Clients :
        Finished(c, "logs") /\ frame[c].found
        => /\ Len(frame[c].resp.logs) <= Min(frame[c].n, LOG_LINES_CEILING)
           /\ frame[c].resp.logs =
                 IF frame[c].log.exists
                 THEN LastLines(FileLines(frame[c].log.text),
                                Min(frame[c].n, LOG_LINES_CEILING))
                 ELSE <<>>

\* C7: a trigger call for a discovered unit whose probe reported idle runs
\* the start command once; when the command fails the call ends with 500 and
\* the command's stderr, when it succeeds with triggered.
C7_IdleStartsOnce ==
    \A c \in Clients :
        frame[c].op = "trigger" /\ frame[c].found
        => /\ frame[c].pc = "start"
                => frame[c].invocations = 0 /\ ~frame[c].probe
           /\ frame[c].pc = "done" /\ frame[c].probe
                => frame[c].invocations = 0
           /\ frame[c].pc = "done" /\ ~frame[c].probe
                => /\ frame[c].invocations = 1
                   /\ IF frame[c].outcome.ok
                      THEN frame[c].resp = Triggered(frame[c].id)
                      ELSE /\ frame[c].resp.code = 500
                           /\ frame[c].resp.detail =
                                 <<"Build trigger failed: ", frame[c].outcome.stderr>>

\* The start command was refused: 500 with its diagnostic.
C7_Witness ==
    \E c \in Clients :
        /\ Finished(c, "trigger")
        /\ frame[c].found
        /\ ~frame[c].probe
        /\ frame[c].invocations = 1
        /\ frame[c].outcome = [ok |-> FALSE, stderr |-> "Access denied"]
        /\ frame[c].resp.code = 500

C9_HealthFollowsCache ==
    [][\A c \in Clients :
          /\ Leaves(c, "health", "cache")
                => frame'[c].cache = is_cache_running
          /\ Leaves(c, "health", "repos")
                => /\ frame'[c].pc = "done"
                   /\ frame'[c].resp.code = 200
                   /\ frame'[c].resp.cache_running = frame[c].cache
                   /\ frame'[c].resp.repositories = get_available_repos
                   /\ frame'[c].resp.status # "down"
                   /\ frame'[c].resp.status = "degraded" <=> ~frame[c].cache
                   /\ frame'[c].resp.status = "healthy" <=> frame[c].cache]_vars

\* Degraded with three units discovered and one of them running.
C9_Witness ==
    \E c \in Clients :
        /\ Finished(c, "health")
        /\ frame[c].resp.status = "degraded"
        /\ ~frame[c].resp.cache_running
        /\ Cardinality(frame[c].resp.repositories) = 3
        /\ \E r \in Repos : unitState[r] = "active"

\* C10, for two simultaneous API calls: while a trigger call stands between
\* its probe and its start command, a second trigger call for the same unit
\* can be taken up, to observe Idle and issue a start of its own.
C10_SecondCallInterleaves ==
    \A c \in Clients :
        /\ frame[c].op = "trigger"
        /\ frame[c].pc = "start"
        /\ WithinBound("trigger", frame[c].id)
        => \E d \in Clients \ {c} : ENABLED Dispatch(d, "trigger", frame[c].id, 0)

\* What holds instead: one handler runs at a time, and a call that stands
\* before its start command has probed idle and runs the command whatever
\* the unit's state has become.
OneHandlerAtATime ==
    /\ \A c, d \in Clients :
          c # d => frame[c].pc = "idle" \/ frame[d].pc = "idle"
    /\ \A c \in Clients :
          frame[c].op = "trigger" /\ frame[c].pc = "start"
          => /\ frame[c].found
             /\ ~frame[c].probe
             /\ ENABLED TriggerStart(c)

\* The race with an external start: a call saw the unit inactive, the timer
\* started it, and the call's start command was accepted for the timer's run:
\* the call returned triggered.
C10_Witness ==
    \E c \in Clients :
        /\ Finished(c, "trigger")
        /\ frame[c].found
        /\ frame[c].stdout = "inactive"
        /\ frame[c].outcome.ok
        /\ frame[c].resp.code = 200
        /\ frame[c].resp.status = "triggered"
        /\ unitState[frame[c].id[1]] = "active"
        /\ activatedBy[frame[c].id[1]] = "timer"
        /\ startRequests[frame[c].id[1]] = 1

=============================================================================
